---- MODULE Spec2Model ----
(***************************************************************************)
(* Model of src/IV.py: a Streamlit script that keeps an inventory table in *)
(* an SQLite file.  The script is executed top to bottom once per user     *)
(* interaction and per browser session; every execution ("script run")     *)
(* opens its own connections and runs the statements of the repository     *)
(* functions in autocommit mode (isolation_level=None), so each SQL        *)
(* statement is one atomic step on the shared table.                       *)
(***************************************************************************)
EXTENDS Integers, Sequences, FiniteSets, TLC

\* ------------------------------------------------------------------ bounds
\* Significand width of the REAL (floating point) columns, scaled down from
\* the 53 bits of an IEEE double so that rounding happens at small numbers.
MantBits == 3
\* Quantities explored lie in -QLow .. QCap.
QCap == 8
QLow == 2

\* Browser sessions: each runs the script on its own thread.
Sessions == {"s1", "s2"}

\* ------------------------------------------------------------------- text
\* Text is a sequence of one-character strings, so that formatting,
\* case folding, substring search and the regular expression of the
\* summary are computed character by character.
Upper == <<"A","B","C","D","E","F","G","H","I","J","K","L","M",
           "N","O","P","Q","R","S","T","U","V","W","X","Y","Z">>
Lower == <<"a","b","c","d","e","f","g","h","i","j","k","l","m",
           "n","o","p","q","r","s","t","u","v","w","x","y","z">>
DigitChars == <<"0","1","2","3","4","5","6","7","8","9">>

LowerChar(c) ==
    IF \E i \in 1..26 : Upper[i] = c
    THEN Lower[CHOOSE i \in 1..26 : Upper[i] = c]
    ELSE c

LowerText(t) == [i \in 1..Len(t) |-> LowerChar(t[i])]

\* pandas str.contains(term, case=False) for a term of plain letters.
Contains(text, term) ==
    \E i \in 0..(Len(text) - Len(term)) :
        SubSeq(LowerText(text), i + 1, i + Len(term)) = LowerText(term)

RECURSIVE Digits(_)
\* Decimal digits of a natural number.
Digits(n) ==
    IF n < 10 THEN <<DigitChars[n + 1]>>
    ELSE Append(Digits(n \div 10), DigitChars[(n % 10) + 1])

DigitValue(c) == (CHOOSE i \in 1..10 : DigitChars[i] = c) - 1
IsDigit(c) == \E i \in 1..10 : DigitChars[i] = c

\* ----------------------------------------------------------------- numbers
RECURSIVE Pow2(_)
Pow2(n) == IF n = 0 THEN 1 ELSE 2 * Pow2(n - 1)

Abs(x) == IF x < 0 THEN -x ELSE x

RECURSIVE UlpExp(_, _)
\* Exponent e >= 0 of the unit in the last place of magnitude a.
UlpExp(a, e) == IF a < Pow2(MantBits + e) THEN e ELSE UlpExp(a, e + 1)

\* Rounding of an exact result to the REAL column's precision
\* (round to nearest, ties to even significand).
RoundReal(x) ==
    LET a    == Abs(x)
        ulp  == Pow2(UlpExp(a, 0))
        m    == a \div ulp
        r    == a % ulp
        up   == (2 * r > ulp) \/ (2 * r = ulp /\ m % 2 = 1)
        mag  == (IF up THEN m + 1 ELSE m) * ulp
    IN  IF x < 0 THEN -mag ELSE mag

\* An exact result that the column stores without rounding.
Exact(x) == RoundReal(x) = x

\* -------------------------------------------------------------- data model
ItemIds == {"A1", "B2"}

Widget   == <<"W","i","d","g","e","t">>
Bolt     == <<"B","o","l","t">>
Gear     == <<"G","e","a","r">>
Hardware == <<"H","a","r","d","w","a","r","e">>
Tools    == <<"T","o","o","l","s">>
USD      == <<"U","S","D">>
EUR      == <<"E","U","R">>
GBP      == <<"G","B","P">>
INR      == <<"I","N","R">>

\* Options of the currency select box.
Currencies == {USD, EUR, GBP, INR}

\* Columns of the CREATE TABLE statement; the last three carry a DEFAULT.
BaseColumns == {"item_id", "item_name", "category", "quantity", "uom", "price"}
OptionalColumns == {"currency", "reorder_level", "reorder_triggered"}
AllColumns == BaseColumns \cup OptionalColumns

\* Column defaults of the CREATE TABLE statement.
DefaultReorderTriggered == 0

\* Prices are kept in thousandths of a currency unit, quantities and reorder
\* levels in whole units.

\* A submitted Add / Update form: the arguments of add_or_update_item.
Form(id, name, cat, qty, uom, price, cur, level) ==
    [item_id |-> id, item_name |-> name, category |-> cat, quantity |-> qty,
     uom |-> uom, price |-> price, currency |-> cur, reorder_level |-> level]

NoForm == Form("", <<>>, <<>>, 0, "", 0, INR, 0)

\* Forms a user submits: two different ones for A1, one for B2, and three
\* with a required field left empty.
ValidForms ==
    { Form("A1", Widget, Hardware, 6, "pcs", 2500, USD, 6),
      Form("A1", Bolt, Tools, 1, "kg", 2504, INR, 4),
      Form("B2", Gear, Hardware, 1, "pcs", 19990, EUR, 1) }

InvalidForms ==
    { Form("", Widget, Hardware, 6, "pcs", 2500, USD, 6),
      Form("A1", <<>>, Hardware, 6, "pcs", 2500, USD, 6),
      Form("A1", Widget, Hardware, 6, "", 2500, USD, 6) }

Forms == ValidForms \cup InvalidForms

\* Values typed into "Change Quantity (+/-)".
Deltas == {-4, 8, -8}

\* Values typed into the search box.
SearchTerms == {<<>>, <<"b","o">>}

Buttons == {"none", "refresh", "save", "update", "mark", "delete"}

\* ---------------------------------------------------------- SQL statements
\* Each operator is the effect of one statement on the rows of the table.

\* Faulty variant, for contrast: DROP TABLE followed by CREATE TABLE.
DropAndCreateTable(db) == [schema |-> AllColumns, table |-> {}]

\* CREATE TABLE IF NOT EXISTS inventory (...) on database db: a table that
\* exists is left as it is, columns and rows.
CreateTableIfNotExists(db) ==
    IF db.schema = {} THEN [schema |-> AllColumns, table |-> {}] ELSE db

\* SELECT * FROM inventory WHERE item_id=?
SelectById(t, id) == {r \in t : r.item_id = id}

\* Faulty variant, for contrast: an INSERT that leaves the currency column to its default.
InsertedRowDefaultCurrency(f) ==
    [item_id |-> f.item_id, item_name |-> f.item_name, category |-> f.category,
     quantity |-> f.quantity, uom |-> f.uom, price |-> f.price,
     currency |-> USD, reorder_level |-> f.reorder_level,
     reorder_triggered |-> DefaultReorderTriggered]

\* INSERT INTO inventory (...) VALUES (...): reorder_triggered takes its
\* column default.
InsertedRow(f) ==
    [item_id |-> f.item_id, item_name |-> f.item_name, category |-> f.category,
     quantity |-> f.quantity, uom |-> f.uom, price |-> f.price,
     currency |-> f.currency, reorder_level |-> f.reorder_level,
     reorder_triggered |-> DefaultReorderTriggered]

InsertItem(t, f) == t \cup {InsertedRow(f)}

\* Faulty variant, for contrast: an UPDATE that does not reset reorder_triggered.
UpdatedRowKeepsTriggered(r, f) ==
    [r EXCEPT !.item_name = f.item_name, !.category = f.category,
              !.quantity = f.quantity, !.uom = f.uom, !.price = f.price,
              !.currency = f.currency, !.reorder_level = f.reorder_level]

\* UPDATE inventory SET item_name=?, ..., reorder_triggered=0 WHERE item_id=?
UpdatedRow(r, f) ==
    [r EXCEPT !.item_name = f.item_name, !.category = f.category,
              !.quantity = f.quantity, !.uom = f.uom, !.price = f.price,
              !.currency = f.currency, !.reorder_level = f.reorder_level,
              !.reorder_triggered = 0]

\* Faulty variant, for contrast: an UPDATE that has set the quantity only.
UpdateItemQuantityOnly(t, f) ==
    {IF r.item_id = f.item_id THEN [r EXCEPT !.quantity = f.quantity] ELSE r : r \in t}

UpdateItem(t, f) ==
    {IF r.item_id = f.item_id THEN UpdatedRow(r, f) ELSE r : r \in t}

\* UPDATE inventory SET quantity = quantity + ? WHERE item_id = ?
AdjustedQuantity(q, d) == RoundReal(q + d)

\* Faulty variant, for contrast: SET quantity = ?, an absolute overwrite.
AdjustStockAbsolute(t, id, d) ==
    {IF r.item_id = id THEN [r EXCEPT !.quantity = RoundReal(d)] ELSE r : r \in t}

\* Faulty variant, for contrast: an UPDATE that is lost.
AdjustStockLost(t, id, d) == t

AdjustStock(t, id, d) ==
    {IF r.item_id = id
     THEN [r EXCEPT !.quantity = AdjustedQuantity(r.quantity, d)]
     ELSE r : r \in t}

\* Faulty variant, for contrast: a DELETE without its WHERE clause.
DeleteAllRows(t, id) == {}

\* DELETE FROM inventory WHERE item_id=?
DeleteRows(t, id) == {r \in t : r.item_id # id}

\* UPDATE inventory SET reorder_triggered = 1 WHERE item_id=?
MarkedRow(r) == [r EXCEPT !.reorder_triggered = 1]

\* Faulty variant, for contrast: an UPDATE of reorder_triggered without its WHERE clause.
MarkAllRows(t, id) == {MarkedRow(r) : r \in t}

MarkRows(t, id) == {IF r.item_id = id THEN MarkedRow(r) ELSE r : r \in t}

\* Rows a statement with WHERE item_id=? touches (the cursor's rowcount).
RowCount(t, id) == Cardinality(SelectById(t, id))

\* ------------------------------------------------------------ presentation
\* Overview search: rows whose name or category contains the term.
FilterByText(rows, term) ==
    IF term = <<>> THEN rows
    ELSE {r \in rows : Contains(r.item_name, term) \/ Contains(r.category, term)}

\* Faulty variant, for contrast: a threshold that counts as low stock.
LowStockInclusive(rows) == {r \in rows : r.quantity <= r.reorder_level}

\* df[df['quantity'] < df['reorder_level']]
LowStock(rows) == {r \in rows : r.quantity < r.reorder_level}

highlight_low_stock(row) == row.quantity < row.reorder_level

\* Hundredths nearest to a price in thousandths (ties to even), as "%.2f"
\* rounds.
RoundCents(p) ==
    LET c == p \div 10
        r == p % 10
    IN  IF r > 5 \/ (r = 5 /\ c % 2 = 1) THEN c + 1 ELSE c

TwoDigits(n) == <<DigitChars[(n \div 10) + 1], DigitChars[(n % 10) + 1]>>

\* f"{x['currency']} {x['price']:.2f}"
FormatMoney(cur, p) ==
    cur \o <<" ">> \o Digits(RoundCents(p) \div 100) \o <<".">>
        \o TwoDigits(RoundCents(p) % 100)

\* str.replace("[^0-9.]", "", regex=True)
StripNonNumeric(t) == SelectSeq(t, LAMBDA c : IsDigit(c) \/ c = ".")

RECURSIVE NatOf(_)
\* The natural number written by a sequence of digits.
NatOf(ds) ==
    IF Len(ds) = 0 THEN 0
    ELSE 10 * NatOf(SubSeq(ds, 1, Len(ds) - 1)) + DigitValue(ds[Len(ds)])

\* What pd.to_numeric(errors="coerce") gives for unparseable text.
NaN == -1

\* pd.to_numeric on stripped text, in thousandths.
ToNumeric(t) ==
    LET dots == {i \in 1..Len(t) : t[i] = "."}
    IN  IF Len(t) = 0 \/ Cardinality(dots) > 1 \/ Len(t) = Cardinality(dots)
        THEN NaN
        ELSE LET d    == IF dots = {} THEN Len(t) + 1 ELSE CHOOSE i \in dots : TRUE
                 int  == SubSeq(t, 1, d - 1)
                 frac == SubSeq(SubSeq(t, d + 1, Len(t)) \o <<"0","0","0">>, 1, 3)
             IN  1000 * NatOf(int) + NatOf(frac)

\* The price column after the display formatting, parsed back.
ReparsedPrice(r) == ToNumeric(StripNonNumeric(FormatMoney(r.currency, r.price)))

\* One term of df["quantity"] * df["numeric_price"]; .sum() skips NaN.
TotalValueTerm(r) ==
    IF ReparsedPrice(r) = NaN THEN 0 ELSE r.quantity * ReparsedPrice(r)

RECURSIVE TotalValue(_)
\* (df["quantity"] * df["numeric_price"]).sum()
TotalValue(rows) ==
    IF rows = {} THEN 0
    ELSE LET r == CHOOSE x \in rows : TRUE
         IN  TotalValueTerm(r) + TotalValue(rows \ {r})

\* len(df)
TotalItems(rows) == Cardinality(rows)

RECURSIVE TotalQty(_)
\* df["quantity"].sum()
TotalQty(rows) ==
    IF rows = {} THEN 0
    ELSE LET r == CHOOSE x \in rows : TRUE
         IN  r.quantity + TotalQty(rows \ {r})

\* f"{total_value:,.2f}" if total_value else "N/A"
ValueShown(rows) == TotalValue(rows) # 0

\* ------------------------------------------------------------------- state
VARIABLES
    schema,     \* columns of the inventory table, {} while there is no table
    table,      \* rows of the inventory table
    acked,      \* history: ids marked as ordered while low on stock and
                \* neither saved again nor deleted since
    trip,       \* history: the last stock update and the table before it;
                \* stage 2 once the opposite update of the same item has
                \* followed it with no other write in between
    ledger,     \* history, per item_id: the quantity last saved plus the
                \* changes of the stock updates since, summed without
                \* rounding, up to the first update that was rounded
    pc,         \* per session: position of its script run
    lock,       \* per session: the Lock its script run created, TRUE if held
    button,     \* per session: the button whose press started the run
    form,       \* per session: values of the Add / Update widgets
    change,     \* per session: value of "Change Quantity (+/-)"
    search,     \* per session: value of the search box
    df,         \* per session: the run's last get_inventory() result
    selected,   \* per session: selected_id of the Stock Management tab
    found,      \* per session: c.fetchone() of add_or_update_item
    rowcount,   \* per session: rows touched by the run's last statement
    msg         \* per session: the outcome message on the page

shared == <<schema, table, acked, trip, ledger>>
inputs == <<button, form, change, search>>
locals == <<df, selected, found, rowcount>>
vars == <<schema, table, acked, trip, ledger, pc, lock, button, form, change, search,
          df, selected, found, rowcount, msg>>

\* The functions that take the lock, and where each returns to.
Enter ==
    [init_db |-> "init_db_exec", add_or_update_item |-> "aoui_select",
     update_stock |-> "update_stock_exec", delete_item |-> "delete_item_exec",
     mark_ordered |-> "mark_ordered_exec"]

Exit ==
    [init_db_close |-> "tab1", aoui_close |-> "tab2_saved",
     update_stock_close |-> "tab3_done", delete_item_close |-> "tab3_done",
     mark_ordered_close |-> "tab3_done"]

\* Positions between a function's "with lock:" and the end of that block:
\* connection open, statement, commit, close.
InSection ==
    {"init_db_exec", "init_db_close", "aoui_select", "aoui_write", "aoui_close",
     "update_stock_exec", "update_stock_close", "delete_item_exec",
     "delete_item_close", "mark_ordered_exec", "mark_ordered_close"}

NoTrip == [stage |-> 0, id |-> "", d |-> 0, before |-> {}]

\* The history of stock updates after the statement UPDATE quantity =
\* quantity + d WHERE item_id = id.
TripAfterUpdate(id, d) ==
    IF SelectById(table, id) = {} THEN trip
    ELSE IF trip.stage = 1 /\ trip.id = id /\ trip.d = -d
         THEN [trip EXCEPT !.stage = 2]
         ELSE [stage |-> 1, id |-> id, d |-> d, before |-> table]

\* The history of stock updates after another statement on item id.
TripAfterWrite(id) == IF SelectById(table, id) = {} THEN trip ELSE NoTrip

\* The ledger entry of an item saved with quantity q, and of no item.
Saved(q) == [exact |-> q, rounded |-> FALSE]
NoEntry == Saved(0)

\* The ledger of the rows of table t as saved.
LedgerOf(t) ==
    [id \in ItemIds |->
        IF SelectById(t, id) = {} THEN NoEntry
        ELSE Saved((CHOOSE r \in SelectById(t, id) : TRUE).quantity)]

\* The ledger after the statement UPDATE quantity = quantity + d WHERE
\* item_id = id.  An entry is kept up to and including the first rounded
\* update.
LedgerAfterUpdate(id, d) ==
    IF SelectById(table, id) = {} \/ ledger[id].rounded THEN ledger
    ELSE [ledger EXCEPT
            ![id] = [exact |-> @.exact + d,
                     rounded |-> \E r \in SelectById(table, id) :
                                    ~Exact(r.quantity + d)]]

Init ==
    /\ schema = {}
    /\ table = {}
    /\ acked = {}
    /\ trip = NoTrip
    /\ ledger = LedgerOf(table)
    /\ pc = [s \in Sessions |-> "idle"]
    /\ lock = [s \in Sessions |-> FALSE]
    /\ button = [s \in Sessions |-> "none"]
    /\ form = [s \in Sessions |-> NoForm]
    /\ change = [s \in Sessions |-> 0]
    /\ search = [s \in Sessions |-> <<>>]
    /\ df = [s \in Sessions |-> {}]
    /\ selected = [s \in Sessions |-> ""]
    /\ found = [s \in Sessions |-> FALSE]
    /\ rowcount = [s \in Sessions |-> 0]
    /\ msg = [s \in Sessions |-> ""]

\* ----------------------------------------------------------- the script run
\* A page load or a button press of session s starts a script run with the
\* widgets' values: b is the pressed button ("none" for a page load), f the
\* Add / Update form, d the quantity change.
StartRun(s, b, f, d) ==
    /\ pc[s] = "idle"
    /\ pc' = [pc EXCEPT ![s] = "top"]
    /\ button' = [button EXCEPT ![s] = b]
    /\ form' = [form EXCEPT ![s] = f]
    /\ change' = [change EXCEPT ![s] = d]
    /\ UNCHANGED <<shared, lock, search, locals, msg>>

\* The page is opened, or Refresh Inventory, Mark as Ordered or Delete Item
\* is pressed.
Press(s, b) ==
    /\ b \in {"none", "refresh", "mark", "delete"}
    /\ StartRun(s, b, NoForm, 0)

\* Save Item is pressed with form f filled in.
PressSave(s, f) == StartRun(s, "save", f, 0)

\* Update Stock is pressed with change d typed in.  The guard keeps the
\* explored quantities within the bounds.
PressUpdate(s, d) ==
    /\ \E r \in table : AdjustedQuantity(r.quantity, d) \in -QLow..QCap
    /\ StartRun(s, "update", NoForm, d)

\* Top of the script: a fresh namespace and page, and "lock =
\* threading.Lock()" creates this run's lock.
ScriptTop(s) ==
    /\ pc[s] = "top"
    /\ pc' = [pc EXCEPT ![s] = "init_db"]
    /\ lock' = [lock EXCEPT ![s] = FALSE]
    /\ search' = [search EXCEPT ![s] = <<>>]
    /\ df' = [df EXCEPT ![s] = {}]
    /\ selected' = [selected EXCEPT ![s] = ""]
    /\ found' = [found EXCEPT ![s] = FALSE]
    /\ rowcount' = [rowcount EXCEPT ![s] = 0]
    /\ msg' = [msg EXCEPT ![s] = ""]
    /\ UNCHANGED <<shared, button, form, change>>

\* "with lock:" of the function session s is calling: blocks while the lock
\* is held.
with_lock_enter(s) ==
    /\ pc[s] \in DOMAIN Enter
    /\ lock[s] = FALSE
    /\ lock' = [lock EXCEPT ![s] = TRUE]
    /\ pc' = [pc EXCEPT ![s] = Enter[pc[s]]]
    /\ UNCHANGED <<shared, inputs, locals, msg>>

\* Faulty variant, for contrast: a block that returns without releasing the lock.
with_lock_exit_keeping(s) ==
    /\ pc[s] \in DOMAIN Exit
    /\ pc' = [pc EXCEPT ![s] = Exit[pc[s]]]
    /\ UNCHANGED <<shared, lock, inputs, locals, msg>>

\* conn.commit(), conn.close() and the end of the "with lock:" block.  In
\* autocommit mode the statement is already committed.
with_lock_exit(s) ==
    /\ pc[s] \in DOMAIN Exit
    /\ lock' = [lock EXCEPT ![s] = FALSE]
    /\ pc' = [pc EXCEPT ![s] = Exit[pc[s]]]
    /\ UNCHANGED <<shared, inputs, locals, msg>>

\* CREATE TABLE IF NOT EXISTS inventory (...)
init_db(s) ==
    /\ pc[s] = "init_db_exec"
    /\ LET db == CreateTableIfNotExists([schema |-> schema, table |-> table])
       IN  schema' = db.schema /\ table' = db.table
    /\ pc' = [pc EXCEPT ![s] = "init_db_close"]
    /\ UNCHANGED <<acked, trip, ledger, lock, inputs, locals, msg>>

\* SELECT * FROM inventory
get_inventory == table

\* The end of a script run: the buttons are released and the run's values
\* are gone; the page keeps its outcome message.
EndOfRun(s) ==
    /\ pc' = [pc EXCEPT ![s] = "idle"]
    /\ button' = [button EXCEPT ![s] = "none"]
    /\ form' = [form EXCEPT ![s] = NoForm]
    /\ change' = [change EXCEPT ![s] = 0]
    /\ search' = [search EXCEPT ![s] = <<>>]
    /\ df' = [df EXCEPT ![s] = {}]
    /\ selected' = [selected EXCEPT ![s] = ""]
    /\ found' = [found EXCEPT ![s] = FALSE]
    /\ rowcount' = [rowcount EXCEPT ![s] = 0]

\* st.rerun(): the script starts over with no button pressed.
Rerun(s) ==
    /\ pc' = [pc EXCEPT ![s] = "top"]
    /\ button' = [button EXCEPT ![s] = "none"]

\* Tab 1: the Refresh button, else the Overview is rendered from a snapshot
\* with t in the search box.  df['reorder_level'] of a table without that
\* column raises KeyError, which ends the script run.
Tab1(s, t) ==
    /\ pc[s] = "tab1"
    /\ IF button[s] = "refresh"
       THEN /\ Rerun(s)
            /\ UNCHANGED <<form, change, search, locals, msg>>
       ELSE IF "reorder_level" \notin schema
            THEN /\ msg' = [msg EXCEPT ![s] = "exception"]
                 /\ EndOfRun(s)
            ELSE /\ df' = [df EXCEPT ![s] = get_inventory]
                 /\ search' = [search EXCEPT ![s] = t]
                 /\ pc' = [pc EXCEPT ![s] = "tab2"]
                 /\ UNCHANGED <<button, form, change, selected, found,
                                rowcount, msg>>
    /\ UNCHANGED <<shared, lock>>

\* What the Overview of session s shows, from its snapshot.
OverviewRows(s) == FilterByText(df[s], search[s])
LowStockAlert(s) == LowStock(OverviewRows(s))
TotalInventoryValue(s) == TotalValue(OverviewRows(s))

\* Faulty variant, for contrast: a test that leaves out the unit of measure.
RequiredFieldsWithoutUom(f) == f.item_id # "" /\ f.item_name # <<>>

\* if item_id and item_name and uom
RequiredFieldsGiven(f) == f.item_id # "" /\ f.item_name # <<>> /\ f.uom # ""

\* Tab 2: the Save Item button.  The Overview's search term is not read
\* again.
Tab2(s) ==
    /\ pc[s] = "tab2"
    /\ IF button[s] = "save"
       THEN IF RequiredFieldsGiven(form[s])
            THEN /\ pc' = [pc EXCEPT ![s] = "add_or_update_item"]
                 /\ UNCHANGED msg
            ELSE /\ msg' = [msg EXCEPT ![s] = "warning"]
                 /\ pc' = [pc EXCEPT ![s] = "tab3"]
       ELSE /\ pc' = [pc EXCEPT ![s] = "tab3"]
            /\ UNCHANGED msg
    /\ search' = [search EXCEPT ![s] = <<>>]
    /\ UNCHANGED <<shared, lock, button, form, change, locals>>

\* add_or_update_item: the SELECT and c.fetchone().
add_or_update_item_select(s) ==
    /\ pc[s] = "aoui_select"
    /\ found' = [found EXCEPT ![s] = SelectById(table, form[s].item_id) # {}]
    /\ pc' = [pc EXCEPT ![s] = "aoui_write"]
    /\ UNCHANGED <<shared, lock, inputs, df, selected, rowcount, msg>>

\* add_or_update_item: the UPDATE or the INSERT.  An INSERT of an item_id
\* that is in the table violates the PRIMARY KEY: the exception leaves the
\* "with lock:" block and ends the script run.
add_or_update_item_write(s) ==
    LET id == form[s].item_id IN
    /\ pc[s] = "aoui_write"
    /\ IF found[s]
       THEN /\ table' = UpdateItem(table, form[s])
            /\ rowcount' = [rowcount EXCEPT ![s] = RowCount(table, id)]
            /\ acked' = IF RowCount(table, id) > 0 THEN acked \ {id} ELSE acked
            /\ trip' = TripAfterWrite(id)
            /\ ledger' = IF RowCount(table, id) > 0
                         THEN [ledger EXCEPT ![id] = Saved(form[s].quantity)]
                         ELSE ledger
            /\ pc' = [pc EXCEPT ![s] = "aoui_close"]
            /\ UNCHANGED <<lock, inputs, df, selected, found, msg>>
       ELSE IF SelectById(table, id) # {}
            THEN /\ lock' = [lock EXCEPT ![s] = FALSE]
                 /\ msg' = [msg EXCEPT ![s] = "exception"]
                 /\ EndOfRun(s)
                 /\ UNCHANGED <<table, acked, trip, ledger>>
            ELSE /\ table' = InsertItem(table, form[s])
                 /\ rowcount' = [rowcount EXCEPT ![s] = 1]
                 /\ acked' = acked \ {id}
                 /\ trip' = NoTrip
                 /\ ledger' = [ledger EXCEPT ![id] = Saved(form[s].quantity)]
                 /\ pc' = [pc EXCEPT ![s] = "aoui_close"]
                 /\ UNCHANGED <<lock, inputs, df, selected, found, msg>>
    /\ UNCHANGED schema

\* st.success(...) and st.rerun() after Save Item.
Tab2Saved(s) ==
    /\ pc[s] = "tab2_saved"
    /\ msg' = [msg EXCEPT ![s] = "saved"]
    /\ Rerun(s)
    /\ UNCHANGED <<shared, lock, form, change, search, locals>>

\* Tab 3: a fresh snapshot, the selected item (one of the snapshot's ids)
\* and the pressed button's handler.  A quantity change is explored while
\* its result is within the bounds.
Tab3(s) ==
    /\ pc[s] = "tab3"
    /\ IF get_inventory = {} \/ button[s] \notin {"update", "mark", "delete"}
       THEN /\ EndOfRun(s)
       ELSE /\ df' = [df EXCEPT ![s] = get_inventory]
            /\ \E r \in get_inventory :
                   /\ button[s] = "update" =>
                          AdjustedQuantity(r.quantity, change[s]) \in -QLow..QCap
                   /\ selected' = [selected EXCEPT ![s] = r.item_id]
            /\ pc' = [pc EXCEPT ![s] =
                        CASE button[s] = "update" -> "update_stock"
                          [] button[s] = "mark"   -> "mark_ordered"
                          [] button[s] = "delete" -> "delete_item"]
            /\ UNCHANGED <<inputs, found, rowcount>>
    /\ UNCHANGED <<shared, lock, msg>>

\* update_stock: the UPDATE of quantity.
update_stock(s) ==
    /\ pc[s] = "update_stock_exec"
    /\ table' = AdjustStock(table, selected[s], change[s])
    /\ rowcount' = [rowcount EXCEPT ![s] = RowCount(table, selected[s])]
    /\ trip' = TripAfterUpdate(selected[s], change[s])
    /\ ledger' = LedgerAfterUpdate(selected[s], change[s])
    /\ pc' = [pc EXCEPT ![s] = "update_stock_close"]
    /\ UNCHANGED <<schema, acked, lock, inputs, df, selected, found, msg>>

\* delete_item: the DELETE.
delete_item(s) ==
    /\ pc[s] = "delete_item_exec"
    /\ table' = DeleteRows(table, selected[s])
    /\ rowcount' = [rowcount EXCEPT ![s] = RowCount(table, selected[s])]
    /\ acked' = acked \ {selected[s]}
    /\ trip' = TripAfterWrite(selected[s])
    /\ ledger' = IF selected[s] \in ItemIds
                 THEN [ledger EXCEPT ![selected[s]] = NoEntry] ELSE ledger
    /\ pc' = [pc EXCEPT ![s] = "delete_item_close"]
    /\ UNCHANGED <<schema, lock, inputs, df, selected, found, msg>>

\* mark_ordered: the UPDATE of reorder_triggered.
mark_ordered(s) ==
    /\ pc[s] = "mark_ordered_exec"
    /\ table' = MarkRows(table, selected[s])
    /\ rowcount' = [rowcount EXCEPT ![s] = RowCount(table, selected[s])]
    /\ acked' = IF LowStock(SelectById(table, selected[s])) # {}
                THEN acked \cup {selected[s]} ELSE acked
    /\ trip' = TripAfterWrite(selected[s])
    /\ pc' = [pc EXCEPT ![s] = "mark_ordered_close"]
    /\ UNCHANGED <<schema, ledger, lock, inputs, df, selected, found, msg>>

\* st.success(...) and st.rerun() of the Stock Management buttons.
Tab3Done(s) ==
    /\ pc[s] = "tab3_done"
    /\ msg' = [msg EXCEPT ![s] =
                 CASE button[s] = "update" -> "stock_updated"
                   [] button[s] = "mark"   -> "marked"
                   [] button[s] = "delete" -> "deleted"]
    /\ Rerun(s)
    /\ UNCHANGED <<shared, lock, form, change, search, locals>>

\* Steps of a script run that a page load takes.
LoadStep(s) ==
    \/ ScriptTop(s)
    \/ with_lock_enter(s)
    \/ with_lock_exit(s)
    \/ init_db(s)
    \/ Tab2(s)
    \/ Tab3(s)

\* Steps of session s's script run outside the repository's statements.
RunStep(s) ==
    \/ LoadStep(s)
    \/ Tab3Done(s)

\* Steps of Save Item.
SaveStep(s) ==
    \/ add_or_update_item_select(s)
    \/ add_or_update_item_write(s)
    \/ Tab2Saved(s)

\* One step of session s's script run.
ScriptStep(s) ==
    \/ RunStep(s)
    \/ SaveStep(s)
    \/ update_stock(s)
    \/ delete_item(s)
    \/ mark_ordered(s)

\* A single user: one session, all inputs.
Next ==
    \/ \E b \in Buttons : Press("s1", b)
    \/ \E f \in Forms : PressSave("s1", f)
    \/ \E d \in Deltas : PressUpdate("s1", d)
    \/ \E t \in SearchTerms : Tab1("s1", t)
    \/ ScriptStep("s1")

Spec == Init /\ [][Next]_vars

\* Several users at once: every session, fewer inputs.
ConcForms == {Form("A1", Widget, Hardware, 6, "pcs", 2500, USD, 6)}

ConcDeltas == {-4}

ConcButtons == {"none", "mark", "delete"}

NextConc ==
    \E s \in Sessions :
        \/ \E b \in ConcButtons : Press(s, b)
        \/ \E f \in ConcForms : PressSave(s, f)
        \/ \E d \in ConcDeltas : PressUpdate(s, d)
        \/ Tab1(s, <<>>)
        \/ ScriptStep(s)

SpecConc == Init /\ [][NextConc]_vars

\* Several users saving, marking and deleting one item at once, each script
\* run on a thread that the scheduler keeps running: a run that can take a
\* step eventually takes one.
LiveButtons == {"mark", "delete"}

LiveStep(s) ==
    \/ RunStep(s)
    \/ SaveStep(s)
    \/ delete_item(s)
    \/ mark_ordered(s)

NextLive ==
    \E s \in Sessions :
        \/ \E b \in LiveButtons : Press(s, b)
        \/ \E f \in ConcForms : PressSave(s, f)
        \/ Tab1(s, <<>>)
        \/ LiveStep(s)

SpecLive ==
    /\ Init
    /\ [][NextLive]_vars
    /\ \A s \in Sessions : WF_vars(LiveStep(s))

\* Forms of two items.
RaceForms ==
    { Form("A1", Widget, Hardware, 6, "pcs", 2500, USD, 6),
      Form("B2", Gear, Hardware, 1, "pcs", 19990, EUR, 1) }

\* Page loads on a database file that an earlier run or an earlier version
\* of the program left behind: no table, a table with the base columns
\* only, or the table of this version; each with some rows.
LegacyRow(f) ==
    [item_id |-> f.item_id, item_name |-> f.item_name, category |-> f.category,
     quantity |-> f.quantity, uom |-> f.uom, price |-> f.price]

InitSchema ==
    /\ \/ schema = {} /\ table = {}
       \/ schema = BaseColumns
              /\ table \in SUBSET {LegacyRow(f) : f \in RaceForms}
       \/ schema = AllColumns
              /\ table \in SUBSET {InsertedRow(f) : f \in RaceForms}
    /\ acked = {}
    /\ trip = NoTrip
    /\ ledger = LedgerOf(table)
    /\ pc = [s \in Sessions |-> "idle"]
    /\ lock = [s \in Sessions |-> FALSE]
    /\ button = [s \in Sessions |-> "none"]
    /\ form = [s \in Sessions |-> NoForm]
    /\ change = [s \in Sessions |-> 0]
    /\ search = [s \in Sessions |-> <<>>]
    /\ df = [s \in Sessions |-> {}]
    /\ selected = [s \in Sessions |-> ""]
    /\ found = [s \in Sessions |-> FALSE]
    /\ rowcount = [s \in Sessions |-> 0]
    /\ msg = [s \in Sessions |-> ""]

NextSchema ==
    \E s \in Sessions :
        \/ Press(s, "none")
        \/ Tab1(s, <<>>)
        \/ LoadStep(s)

SpecSchema == InitSchema /\ [][NextSchema]_vars

\* One item, saved by one user, whose stock several users raise at once.
StockForms == {Form("B2", Gear, Hardware, 1, "pcs", 19990, EUR, 1)}

StockDeltas == {1, 8}

NextStock ==
    \/ \E f \in StockForms : PressSave("s1", f)
    \/ \E s \in Sessions :
           \/ \E d \in StockDeltas : PressUpdate(s, d)
           \/ Tab1(s, <<>>)
           \/ RunStep(s)
           \/ update_stock(s)
    \/ SaveStep("s1")

SpecStock == Init /\ [][NextStock]_vars

\* Two items, saved and deleted by one user while another session deletes.
NextRace ==
    \/ \E f \in RaceForms : PressSave("s1", f)
    \/ \E s \in Sessions :
           \/ Press(s, "delete")
           \/ Tab1(s, <<>>)
           \/ RunStep(s)
           \/ delete_item(s)
    \/ SaveStep("s1")

SpecRace == Init /\ [][NextRace]_vars

\* ------------------------------------------------------------------ claims
\* Row r carries the field values submitted in form f.
CarriesSubmitted(r, f) ==
    /\ r.item_id = f.item_id
    /\ r.item_name = f.item_name
    /\ r.category = f.category
    /\ r.quantity = f.quantity
    /\ r.uom = f.uom
    /\ r.price = f.price
    /\ r.currency = f.currency
    /\ r.reorder_level = f.reorder_level

\* The rows of t with another item_id than id.
OtherRows(t, id) == {r \in t : r.item_id # id}

\* Session s takes a step out of position p.
Leaves(s, p) == pc[s] = p /\ pc'[s] # p

\* The Overview that session s renders in the rerun after saving form[s].
OverviewAfterSave(s) ==
    pc[s] = "tab2" /\ button[s] = "none" /\ form[s] # NoForm

\* C1: when item_id X is not in the table, add_or_update_item(X, ...) adds
\* exactly one row for X, carrying the submitted values and
\* reorder_triggered = 0, leaves every existing row as it was, and the
\* get_inventory() that follows returns that row.
C1_NewItemInserted ==
    /\ [][\A s \in Sessions :
            (Leaves(s, "aoui_write") /\ SelectById(table, form[s].item_id) = {})
            => /\ pc'[s] = "aoui_close"
               /\ \E r \in table' :
                      /\ SelectById(table', form[s].item_id) = {r}
                      /\ CarriesSubmitted(r, form[s])
                      /\ r.reorder_triggered = 0
               /\ OtherRows(table', form[s].item_id) = table]_vars
    /\ [](\A s \in Sessions :
            OverviewAfterSave(s)
            => \E r \in df[s] :
                   /\ SelectById(df[s], form[s].item_id) = {r}
                   /\ CarriesSubmitted(r, form[s])
                   /\ r.reorder_triggered = 0)

\* C1 witness: the INSERT has run for an item_id that the run's snapshot did
\* not hold, beside another item's row.
C1_Witness ==
    \E s \in Sessions :
        /\ pc[s] = "aoui_close"
        /\ ~found[s]
        /\ SelectById(df[s], form[s].item_id) = {}
        /\ df[s] # {}
        /\ \E r \in table : CarriesSubmitted(r, form[s]) /\ r.reorder_triggered = 0
        /\ Cardinality(table) = 2

\* C2: when item_id X is in the table, add_or_update_item(X, ...) overwrites
\* the row's fields with the submitted values, resets reorder_triggered to
\* 0, and leaves the number of rows and every other row as they were.
C2_ExistingItemOverwritten ==
    [][\A s \in Sessions :
          (Leaves(s, "aoui_write") /\ SelectById(table, form[s].item_id) # {})
          => /\ pc'[s] = "aoui_close"
             /\ \E r \in table' :
                    /\ SelectById(table', form[s].item_id) = {r}
                    /\ CarriesSubmitted(r, form[s])
                    /\ r.reorder_triggered = 0
             /\ Cardinality(table') = Cardinality(table)
             /\ OtherRows(table', form[s].item_id)
                    = OtherRows(table, form[s].item_id)]_vars

\* C2 witness: the UPDATE has run on a row that the run's snapshot shows
\* marked as ordered and with other values than the submitted ones.
C2_Witness ==
    \E s \in Sessions :
        /\ pc[s] = "aoui_close"
        /\ found[s]
        /\ \E r \in SelectById(df[s], form[s].item_id) :
               /\ r.reorder_triggered = 1
               /\ r.item_name # form[s].item_name
               /\ r.quantity # form[s].quantity
        /\ \E r \in table : CarriesSubmitted(r, form[s]) /\ r.reorder_triggered = 0
        /\ Cardinality(table) = 2

\* C3: delete_item(X) leaves no row with item_id X and every other row as
\* it was; when X is not in the table, the table is unchanged.
C3_DeleteRemovesOnlyX ==
    [][\A s \in Sessions :
          Leaves(s, "delete_item_exec")
          => /\ SelectById(table', selected[s]) = {}
             /\ SelectById(get_inventory', selected[s]) = {}
             /\ OtherRows(table', selected[s]) = OtherRows(table, selected[s])
             /\ SelectById(table, selected[s]) = {} => table' = table]_vars

\* C3 witness: two sessions have deleted the same item, the first removing
\* its row and the second finding none, and another item's row is still
\* there.
C3_Witness ==
    \E s, t \in Sessions :
        /\ pc[s] = "delete_item_close" /\ pc[t] = "delete_item_close"
        /\ selected[s] = selected[t]
        /\ rowcount[s] = 1 /\ rowcount[t] = 0
        /\ table # {}

\* C4: an update_stock, delete_item or mark_ordered that touches no row is
\* reported as such: the success message is shown only when a row was
\* affected.
C4_ZeroRowsReported ==
    \A s \in Sessions :
        msg[s] \in {"stock_updated", "marked", "deleted"} => rowcount[s] > 0

\* C5: an item marked as ordered while low on stock is in no Overview
\* low-stock alert until it is saved again through add_or_update_item.
C5_OrderedNotAlerted ==
    \A s \in Sessions :
        pc[s] = "tab2" => \A r \in LowStockAlert(s) : r.item_id \notin acked

\* C6: at most one session is between the "with lock:" and the end of the
\* block of a write function at any time.
C6_OneWriteInSection ==
    \A s, t \in Sessions :
        s # t => ~(pc[s] \in InSection /\ pc[t] \in InSection)

\* Rows r and q agree on every field but reorder_triggered.
SameButTriggered(r, q) ==
    [r EXCEPT !.reorder_triggered = 0] = [q EXCEPT !.reorder_triggered = 0]

\* C7: mark_ordered(X) on an existing row sets reorder_triggered to 1 and
\* changes no other field of X and no other row.
C7_MarkSetsOnlyFlag ==
    [][\A s \in Sessions :
          (Leaves(s, "mark_ordered_exec") /\ SelectById(table, selected[s]) # {})
          => /\ \A r \in SelectById(table, selected[s]) :
                    \E q \in table' :
                        SameButTriggered(r, q) /\ q.reorder_triggered = 1
             /\ \A q \in SelectById(table', selected[s]) : q.reorder_triggered = 1
             /\ Cardinality(table') = Cardinality(table)
             /\ OtherRows(table', selected[s]) = OtherRows(table, selected[s])]_vars

\* C7 witness: mark_ordered has marked one of two rows, the other one is
\* not marked.
C7_Witness ==
    \E s \in Sessions :
        /\ pc[s] = "mark_ordered_close"
        /\ rowcount[s] = 1
        /\ \E r \in SelectById(table, selected[s]) : r.reorder_triggered = 1
        /\ \E r \in OtherRows(table, selected[s]) : r.reorder_triggered = 0

\* C8 as stated: update_stock(X, +d) followed by update_stock(X, -d) gives
\* back the table as it was, for every quantity and every d.
C8_RoundTripAlways == trip.stage = 2 => table = trip.before

\* The first update of the round trip was stored without rounding.
TripExact ==
    \A r \in SelectById(trip.before, trip.id) : Exact(r.quantity + trip.d)

\* C8 as amended: update_stock(X, +d) followed by update_stock(X, -d) gives
\* back the table as it was whenever quantity + d is stored without
\* rounding.
C8_RoundTripExact == (trip.stage = 2 /\ TripExact) => table = trip.before

\* C8 witness: a round trip with a change other than 0 is complete, beside
\* another item's row.
C8_Witness ==
    /\ trip.stage = 2
    /\ trip.d # 0
    /\ TripExact
    /\ \E s \in Sessions : pc[s] = "update_stock_close" /\ change[s] = -trip.d
    /\ Cardinality(table) = 2

\* C9: Save Item with an empty item_id, item_name or uom shows the warning
\* and writes nothing: add_or_update_item is not called.
C9_InvalidSaveWarns ==
    /\ [][\A s \in Sessions :
            (/\ Leaves(s, "tab2")
             /\ button[s] = "save"
             /\ (form[s].item_id = "" \/ form[s].item_name = <<>>
                    \/ form[s].uom = ""))
            => /\ msg'[s] = "warning"
               /\ pc'[s] = "tab3"
               /\ table' = table]_vars
    /\ [](\A s \in Sessions :
            msg[s] = "warning" => pc[s] \in {"tab3", "idle", "top"})

\* C9 witness: the warning is shown for a form without uom while the table
\* holds a row.
C9_Witness ==
    \E s \in Sessions :
        /\ pc[s] = "tab3"
        /\ msg[s] = "warning"
        /\ form[s].item_id # "" /\ form[s].item_name # <<>> /\ form[s].uom = ""
        /\ table # {}

RECURSIVE NumericTotal(_)
\* The sum over rows of quantity times the stored price.
NumericTotal(rows) ==
    IF rows = {} THEN 0
    ELSE LET r == CHOOSE x \in rows : TRUE
         IN  r.quantity * r.price + NumericTotal(rows \ {r})

\* C10: the Overview's total inventory value is the sum over the displayed
\* rows of quantity times the stored numeric price.
C10_TotalFromStoredPrice ==
    \A s \in Sessions :
        pc[s] = "tab2" => TotalInventoryValue(s) = NumericTotal(OverviewRows(s))

\* Row r is the whole result of the statement session w is about to run:
\* the inserted or updated row of its upsert with every submitted value and
\* reorder_triggered = 0, or a row q of the table with the quantity moved by
\* w's change only, or with reorder_triggered set to 1 only.
WholePostState(w, r) ==
    \/ /\ pc[w] = "aoui_write"
       /\ CarriesSubmitted(r, form[w])
       /\ r.reorder_triggered = 0
    \/ /\ pc[w] = "update_stock_exec"
       /\ \E q \in SelectById(table, selected[w]) :
              /\ r.quantity = AdjustedQuantity(q.quantity, change[w])
              /\ [r EXCEPT !.quantity = 0] = [q EXCEPT !.quantity = 0]
    \/ /\ pc[w] = "mark_ordered_exec"
       /\ \E q \in SelectById(table, selected[w]) :
              SameButTriggered(r, q) /\ r.reorder_triggered = 1

\* C11: a get_inventory() that runs while other sessions write returns the
\* table as it is between two statements, and every statement leaves each
\* row either as it was or in the whole state that the write produces: no
\* row with only part of a write's changes is ever in the table or in a
\* snapshot.
C11_ReadsSeeWholeRows ==
    [][/\ \A s \in Sessions :
              df'[s] # df[s] => df'[s] = {} \/ df'[s] = table
       /\ \A r \in table' \ table :
              \E w \in Sessions : pc'[w] # pc[w] /\ WholePostState(w, r)]_vars

\* C11 witness: a session holds a snapshot with the row that another
\* session, inside add_or_update_item after its SELECT, is about to
\* overwrite: the quantity and reorder_triggered of the row differ from what
\* the UPDATE will store.
C11_Witness ==
    \E s, w \in Sessions :
        /\ s # w
        /\ pc[w] = "aoui_write" /\ found[w]
        /\ pc[s] = "tab2" /\ df[s] = table
        /\ \E r \in SelectById(df[s], form[w].item_id) :
               r.quantity # form[w].quantity /\ r.reorder_triggered = 1

\* C12: no write blocks for ever: a script run that has reached the
\* "with lock:" of a write function eventually holds the lock, and a run
\* that holds the lock eventually releases it, also when the statement
\* raises inside the block.
C12_WritesDoNotBlock ==
    \A s \in Sessions :
        /\ (pc[s] \in DOMAIN Enter) ~> lock[s]
        /\ lock[s] ~> ~lock[s]

\* C12 witness: a session's INSERT has raised on a duplicate key inside the
\* "with lock:" block and its lock is free again, while the other session,
\* which inserted the row, still holds its own.
C12_Witness ==
    \E s, t \in Sessions :
        /\ msg[s] = "exception" /\ ~lock[s] /\ pc[s] = "idle"
        /\ pc[t] = "aoui_close" /\ lock[t]

\* C13: when init_db has returned, the inventory table has every column of
\* the data model, also when a table without the optional columns existed
\* before.
C13_InitAddsMissingColumns ==
    \A s \in Sessions : pc[s] = "tab1" => AllColumns \subseteq schema

\* C14: init_db on a database that has the table raises nothing and leaves
\* columns and rows as they were, wherever in a sequence of operations the
\* rerun calls it.
C14_InitIdempotent ==
    [][\A s \in Sessions :
          Leaves(s, "init_db_exec")
          => /\ pc'[s] = "init_db_close"
             /\ msg'[s] = msg[s]
             /\ schema # {} => (schema' = schema /\ table' = table)]_vars

\* C14 witness: a rerun has run init_db again after saves, a stock update
\* and Mark as Ordered: the table holds two rows, one of them marked and
\* with a quantity below zero.
C14_Witness ==
    \E s \in Sessions :
        /\ pc[s] = "init_db_close"
        /\ Cardinality(table) = 2
        /\ \E r \in table : r.reorder_triggered = 1 /\ r.quantity < 0

\* C15: the rows the Overview reports as low stock, in the alert and by
\* highlighting, are those of the view with a quantity below the reorder
\* level: not a row whose quantity equals its reorder level, and always a
\* row whose quantity is one below it.
C15_LowStockStrict ==
    \A s \in Sessions :
        pc[s] = "tab2"
        => /\ LowStockAlert(s) \subseteq OverviewRows(s)
           /\ \A r \in OverviewRows(s) :
                  /\ r.quantity >= r.reorder_level
                         => r \notin LowStockAlert(s) /\ ~highlight_low_stock(r)
                  /\ r.quantity + 1 <= r.reorder_level
                         => r \in LowStockAlert(s) /\ highlight_low_stock(r)

\* C15 witness: an Overview with a row at its reorder level, not reported,
\* and a row one below its reorder level, reported.
C15_Witness ==
    \E s \in Sessions :
        /\ pc[s] = "tab2"
        /\ \E r \in OverviewRows(s) :
               r.quantity = r.reorder_level /\ r \notin LowStockAlert(s)
        /\ \E r \in OverviewRows(s) :
               r.quantity = r.reorder_level - 1 /\ r \in LowStockAlert(s)

\* C16: whatever the interleaving of concurrent saves, stock updates, marks
\* and deletes, the table holds at most one row per item_id, and no upsert
\* fails on a duplicate key: of two concurrent saves of a new item_id one
\* inserts and the other updates.
C16_OneRowNoDuplicateError ==
    /\ \A id \in ItemIds : RowCount(table, id) <= 1
    /\ \A s \in Sessions : msg[s] # "exception"

\* C17: through any sequence of Save Item, Update Stock, Mark as Ordered and
\* Delete Item, the quantity of every stored row is at least 0.
C17_QuantityNotNegative == \A r \in table : r.quantity >= 0

\* Every session is inside update_stock, past its UPDATE of the row of id:
\* the stock updates ran concurrently and all are applied.
ConcurrentUpdatesDone(id) ==
    \A s \in Sessions :
        /\ pc[s] = "update_stock_close"
        /\ selected[s] = id
        /\ rowcount[s] = 1
        /\ change[s] # 0

\* C18 as stated: when several stock updates of an item have run
\* concurrently, its quantity is the quantity last saved plus the sum of the
\* changes of all stock updates since, whatever the interleaving.
C18_NoLostAdjustment ==
    \A r \in table :
        ConcurrentUpdatesDone(r.item_id)
        => r.quantity = ledger[r.item_id].exact

\* C18 as amended: at any time, and so after concurrent stock updates in
\* any interleaving, the quantity is the quantity last saved plus the sum of
\* the changes since, as long as each quantity + change was stored without
\* rounding.
C18_NoLostExactAdjustment ==
    \A r \in table :
        ~ledger[r.item_id].rounded => r.quantity = ledger[r.item_id].exact

\* C18 witness: two sessions are inside update_stock at once, each past its
\* UPDATE of the same row, no update was rounded, and the quantity is the
\* saved one plus both changes.
C18_Witness ==
    \E r \in table :
        /\ ConcurrentUpdatesDone(r.item_id)
        /\ ~ledger[r.item_id].rounded
        /\ r.quantity = 1 + change["s1"] + change["s2"]
====
